---- MODULE Spec2Model ----
(***************************************************************************)
(* Model of market-data-agg.                                               *)
(*                                                                         *)
(* Part I: the polling stream helper (providers/core/stream_helpers.py),   *)
(* the provider stream() loops built on the provider-wide streaming flag   *)
(* (CoinGeckoProvider.stream, YFinanceProvider.stream) and close().        *)
(* Every action is one atomic block of an asyncio coroutine: the code that *)
(* runs between two suspension points (await / yield).                     *)
(*                                                                         *)
(* Part II: the Polymarket market cache and symbol resolver                *)
(* (providers/polymarket/cache.py, resolver.py).                           *)
(*                                                                         *)
(* Part III: the markets service over the three providers.                 *)
(*                                                                         *)
(* Part IV: PolymarketProvider.stream, the push transport.                 *)
(***************************************************************************)
EXTENDS Integers, Sequences, FiniteSets, TLC

VARIABLES
    providerKind,   \* class of the provider instance the sessions run against
    streaming,      \* provider._streaming, the provider-wide flag
    clientClosed,   \* the provider's httpx client has been closed (aclose)
    clearedBy,      \* history: who last wrote False to the flag
    closedOver,     \* history: the sessions inside their loop at a close()
    session,        \* per streaming session: the generator's frame
    cache,          \* PolymarketMarketCache: its three dicts
    call,           \* per resolver call slot: the resolve() coroutine
    requests,       \* history: upstream catalog requests issued so far
    served,         \* history: (symbol, market) pairs fetched and cached
                    \* since the last clear
    dropped,        \* history: what served held when the cache was last cleared
    stale,          \* history: the calls whose request was in flight at a clear
    svc,            \* the markets service's request in flight and its response
    push,           \* per push session: the frame of PolymarketProvider.stream
    ws,             \* PolymarketProvider._ws: the session whose connection is recorded
    closer          \* the PolymarketProvider.close() coroutine

pollVars == <<providerKind, streaming, clientClosed, clearedBy, closedOver, session>>

cacheVars == <<cache, call, requests, served, dropped, stale>>

svcVars == <<svc>>

pushVars == <<push, ws, closer>>

vars == <<pollVars, cacheVars, svcVars, pushVars>>

----------------------------------------------------------------------------
(* Bounds *)

\* poll rounds in the two-session specification
ConcRounds == 2
\* poll rounds in the single-session specification
MaxRounds == 3

Sessions == {"A", "B"}
Symbols == {"BTC", "ETH"}
Values == {100, 101}

Quotes == [symbol : Symbols, value : Values]

RECURSIVE SeqsUpTo(_, _)
SeqsUpTo(S, n) ==
    IF n = 0 THEN {<<>>}
    ELSE LET shorter == SeqsUpTo(S, n - 1)
         IN shorter \cup {Append(q, x) : q \in {t \in shorter : Len(t) = n - 1}, x \in S}

Range(f) == {f[i] : i \in DOMAIN f}

\* what fetch_quotes(symbols) may return: quotes of requested symbols, in any
\* order, at most as many as symbols were requested
Batches(symbols) ==
    SeqsUpTo({q \in Quotes : q.symbol \in Range(symbols)}, Len(symbols))

----------------------------------------------------------------------------
(* Python dict helpers *)

EmptyDict == <<>>

Put(d, k, v) == [x \in (DOMAIN d) \cup {k} |-> IF x = k THEN v ELSE d[x]]

----------------------------------------------------------------------------
(* stream_by_polling / YFinanceProvider.stream *)

\* mutant: the value is looked up among all symbols' last values
SkipsAnySymbol(last_values, q, dedup_by_value) ==
    /\ dedup_by_value
    /\ \E k \in DOMAIN last_values : last_values[k] = q.value

\* line 44: dedup_by_value and last_values.get(q.symbol) == q.value
Skips(last_values, q, dedup_by_value) ==
    /\ dedup_by_value
    /\ q.symbol \in DOMAIN last_values
    /\ last_values[q.symbol] = q.value

\* mutant: a resumed for loop looks for its next quote from the head of the batch
FirstYieldFromHead(quotes, i, last_values, dedup_by_value) ==
    LET ok == {j \in 1 .. Len(quotes) : ~Skips(last_values, quotes[j], dedup_by_value)}
    IN IF i > Len(quotes) \/ ok = {} THEN 0
       ELSE CHOOSE j \in ok : \A k \in ok : j <= k

\* index of the first quote at or after i that is not skipped, 0 if none
RECURSIVE FirstYield(_, _, _, _)
FirstYield(quotes, i, last_values, dedup_by_value) ==
    IF i > Len(quotes) THEN 0
    ELSE IF Skips(last_values, quotes[i], dedup_by_value)
         THEN FirstYield(quotes, i + 1, last_values, dedup_by_value)
         ELSE i

\* mutant: only the first value of a symbol is remembered
RememberFirstOnly(last_values, q, dedup_by_value) ==
    IF dedup_by_value /\ q.symbol \notin DOMAIN last_values
    THEN Put(last_values, q.symbol, q.value) ELSE last_values

\* lines 46-47: if dedup_by_value: last_values[q.symbol] = q.value
Remember(last_values, q, dedup_by_value) ==
    IF dedup_by_value THEN Put(last_values, q.symbol, q.value) ELSE last_values

\* the for loop over quotes, resumed at index i, up to its next suspension:
\* the next yield, or the interval sleep after the last quote
Iterate(f, quotes, i) ==
    LET j == FirstYield(quotes, i, f.last_values, f.dedup_by_value)
    IN IF j = 0
       THEN [f EXCEPT !.pc = "sleeping", !.quotes = quotes, !.idx = 0]
       ELSE [f EXCEPT !.pc = "yielded", !.quotes = quotes, !.idx = j,
                      !.last_values = Remember(f.last_values, quotes[j], f.dedup_by_value),
                      !.emitted = Append(f.emitted,
                                         [symbol |-> quotes[j].symbol,
                                          value |-> quotes[j].value,
                                          round |-> f.rounds, pos |-> j])]

\* mutant: the provider-wide flag decides in every mode
LoopConditionFlagOnly(f, flag) == flag

\* mutant: is_set() is never consulted
LoopConditionIgnoresSet(f, flag) ==
    \/ f.stop_event # "None"
    \/ (f.stop_event = "None" /\ flag)

\* lines 39-41: the while condition
LoopCondition(f, flag) ==
    \/ (f.stop_event # "None" /\ f.stop_event # "set")
    \/ (f.stop_event = "None" /\ flag)

\* the finally clause (lines 50-52; y_finance_provider.py 184-185)
FinallyFlag(f, flag) == IF f.kind = "event" THEN flag ELSE FALSE

FinallyWriter(s, f, who) == IF f.kind = "event" THEN who ELSE s

\* the loop head: start the next fetch round, or leave through finally
LoopHead(s, f, flag, maxRounds) ==
    IF LoopCondition(f, flag)
    THEN /\ f.rounds < maxRounds
         /\ session' = [session EXCEPT ![s] =
                [f EXCEPT !.rounds = f.rounds + 1,
                          !.pc = IF f.kind = "yf" /\ f.symbols = <<>>
                                 THEN "sleeping" ELSE "fetching"]]
         /\ streaming' = flag
         /\ UNCHANGED clearedBy
    ELSE /\ session' = [session EXCEPT ![s] = [f EXCEPT !.pc = "done"]]
         /\ streaming' = FinallyFlag(f, flag)
         /\ clearedBy' = FinallyWriter(s, f, clearedBy)

\* flag after the generator's prologue (lines 34-36; y_finance_provider.py 165)
PrologueFlag(f, flag) == IF f.kind = "event" THEN flag ELSE TRUE

\* mutant: the guard on an empty symbol list is missing
ReturnsEmptyNever(f) == FALSE

\* lines 32-33: if not symbols: return (YFinanceProvider.stream has no such
\* guard)
ReturnsEmpty(f) == f.kind # "yf" /\ f.symbols = <<>>

\* first __anext__: runs the generator up to its first suspension
Start(s, maxRounds) ==
    LET f == session[s] IN
    /\ f.pc = "init"
    /\ IF ReturnsEmpty(f)
       THEN /\ session' = [session EXCEPT ![s] = [f EXCEPT !.pc = "done"]]
            /\ UNCHANGED <<streaming, clearedBy>>
       ELSE LoopHead(s, f, PrologueFlag(f, streaming), maxRounds)
    /\ UNCHANGED <<providerKind, closedOver, clientClosed, cacheVars, svcVars, pushVars>>

\* history: per symbol, the rounds in which a quote of it was fetched and the
\* values fetched for it
Record(fetched, quotes, round) ==
    [sym \in Symbols |->
        IF \E k \in DOMAIN quotes : quotes[k].symbol = sym
        THEN [rounds |-> fetched[sym].rounds \cup {round},
              values |-> fetched[sym].values
                            \cup {quotes[k].value : k \in {i \in DOMAIN quotes : quotes[i].symbol = sym}}]
        ELSE fetched[sym]]

\* await fetch_quotes(symbols) returns a batch
FetchDone(s) ==
    LET f == session[s] IN
    /\ f.pc = "fetching"
    /\ f.kind = "yf" \/ ~clientClosed
    /\ \E quotes \in Batches(f.symbols) :
          session' = [session EXCEPT ![s] =
                         Iterate([f EXCEPT !.fetched = Record(f.fetched, quotes, f.rounds)],
                                 quotes, 1)]
    /\ UNCHANGED <<providerKind, closedOver, streaming, clientClosed, clearedBy, cacheVars, svcVars, pushVars>>

\* await fetch_quotes(symbols) raises (raise_for_status, closed client);
\* YFinanceProvider.stream gathers with return_exceptions and never raises
FetchFail(s) ==
    LET f == session[s] IN
    /\ f.pc = "fetching"
    /\ f.kind # "yf"
    /\ session' = [session EXCEPT ![s] = [f EXCEPT !.pc = "failed"]]
    /\ streaming' = FinallyFlag(f, streaming)
    /\ clearedBy' = FinallyWriter(s, f, clearedBy)
    /\ UNCHANGED <<providerKind, closedOver, clientClosed, cacheVars, svcVars, pushVars>>

\* the consumer asks for the next quote: the generator resumes after yield
Resume(s) ==
    LET f == session[s] IN
    /\ f.pc = "yielded"
    /\ session' = [session EXCEPT ![s] = Iterate(f, f.quotes, f.idx + 1)]
    /\ UNCHANGED <<providerKind, closedOver, streaming, clientClosed, clearedBy, cacheVars, svcVars, pushVars>>

\* the consumer drops the generator at a yield: aclose() raises GeneratorExit
Abandon(s) ==
    LET f == session[s] IN
    /\ f.pc = "yielded"
    /\ session' = [session EXCEPT ![s] = [f EXCEPT !.pc = "closed"]]
    /\ streaming' = FinallyFlag(f, streaming)
    /\ clearedBy' = FinallyWriter(s, f, clearedBy)
    /\ UNCHANGED <<providerKind, closedOver, clientClosed, cacheVars, svcVars, pushVars>>

\* await asyncio.sleep(poll_interval_seconds) returns
SleepDone(s, maxRounds) ==
    LET f == session[s] IN
    /\ f.pc = "sleeping"
    /\ LoopHead(s, f, streaming, maxRounds)
    /\ UNCHANGED <<providerKind, closedOver, clientClosed, cacheVars, svcVars, pushVars>>

\* handle_websocket_stream's finally: stop_event.set()
SetStop(s) ==
    LET f == session[s] IN
    /\ f.stop_event = "unset"
    /\ session' = [session EXCEPT ![s] = [f EXCEPT !.stop_event = "set"]]
    /\ UNCHANGED <<providerKind, closedOver, streaming, clientClosed, clearedBy, cacheVars, svcVars, pushVars>>

\* the generator is inside its loop: past the prologue, before the finally
InLoop(f) == f.pc \in {"fetching", "yielded", "sleeping"}

\* provider.close(); history: the loops it was called over are marked
Close ==
    /\ streaming' = FALSE
    /\ clearedBy' = "close"
    /\ clientClosed' = (providerKind = "coingecko")
    /\ closedOver' = closedOver \cup {s \in Sessions : InLoop(session[s])}
    /\ UNCHANGED <<providerKind, session, cacheVars, svcVars, pushVars>>

----------------------------------------------------------------------------
(* Part II: Polymarket market cache and symbol resolver.                    *)
(* A Python str is modelled as the tuple of its characters, so that         *)
(* startswith() and iteration over a str do what they do in Python.         *)

Calls == {"c1", "c2"}

\* upstream catalog requests issued in one run
MaxRequests == 3

\* an Optional value: None, or the one value it holds
None == <<>>

Some(x) == <<x>>

SlugBtc == <<"b", "t", "c">>
SlugEth == <<"e", "t", "h">>
SlugUnknown == <<"z", "z">>
CondBtc == <<"0", "x", "1">>
CondBare == <<"0", "x", "3">>

Token71 == <<"7", "1">>
Token72 == <<"7", "2">>
Token81 == <<"8", "1">>

\* A key the payload does not carry is the empty tuple. clobTokenIds comes
\* as a list of strs or as one str holding a JSON array (dto.py types the
\* field as str and parses it).
AsList(items) == [type |-> "list", items |-> items, text |-> <<>>]

AsStr(text) == [type |-> "str", items |-> <<>>, text |-> text]

MarketBtc ==
    [slug |-> SlugBtc, conditionId |-> CondBtc,
     clobTokenIds |-> AsList(<<Token71, Token72>>)]

\* clobTokenIds = '["81"]', no conditionId
MarketEth ==
    [slug |-> SlugEth, conditionId |-> <<>>,
     clobTokenIds |-> AsStr(<<"[", "\"", "8", "1", "\"", "]">>)]

\* neither slug nor clobTokenIds
MarketBare ==
    [slug |-> <<>>, conditionId |-> CondBare, clobTokenIds |-> AsList(<<>>)]

Catalog == {MarketBtc, MarketEth, MarketBare}

ResolveSymbols == {SlugBtc, SlugEth, SlugUnknown, CondBtc, CondBare}

\* for x in <list or str>: a str yields its characters, each a str
PyIter(raw) ==
    IF raw.type = "list" THEN raw.items
    ELSE [i \in 1 .. Len(raw.text) |-> <<raw.text[i]>>]

\* the strs of a flat JSON array of strs (json.loads)
RECURSIVE JsonStrings(_, _, _, _, _)
JsonStrings(text, i, inStr, cur, acc) ==
    IF i > Len(text) THEN acc
    ELSE IF text[i] = "\""
         THEN IF inStr THEN JsonStrings(text, i + 1, FALSE, <<>>, Append(acc, cur))
              ELSE JsonStrings(text, i + 1, TRUE, <<>>, acc)
         ELSE IF inStr THEN JsonStrings(text, i + 1, TRUE, Append(cur, text[i]), acc)
              ELSE JsonStrings(text, i + 1, FALSE, cur, acc)

\* raw.split(","), empty parts dropped
RECURSIVE CommaSplit(_, _, _, _)
CommaSplit(text, i, cur, acc) ==
    IF i > Len(text) THEN (IF cur = <<>> THEN acc ELSE Append(acc, cur))
    ELSE IF text[i] = ","
         THEN CommaSplit(text, i + 1, <<>>, IF cur = <<>> THEN acc ELSE Append(acc, cur))
         ELSE CommaSplit(text, i + 1, Append(cur, text[i]), acc)

\* the token ids a payload lists (dto.py _parse_clob_token_ids)
ParseClobTokenIds(raw) ==
    IF raw.type = "list" THEN raw.items
    ELSE IF raw.text # <<>> /\ raw.text[1] = "["
         THEN JsonStrings(raw.text, 1, FALSE, <<>>, <<>>)
         ELSE CommaSplit(raw.text, 1, <<>>, <<>>)

\* mutant: every symbol is looked up by slug
StartsWith0xNever(symbol) == FALSE

\* symbol.startswith("0x")
StartsWith0x(symbol) ==
    Len(symbol) >= 2 /\ symbol[1] = "0" /\ symbol[2] = "x"

EmptyCache ==
    [by_slug |-> EmptyDict, by_condition_id |-> EmptyDict,
     token_to_slug_outcome |-> EmptyDict]

\* dict.get(key)
DictGet(d, k) == IF k \in DOMAIN d THEN Some(d[k]) ELSE None

\* mutant: no lookup through the condition-id index
CacheGetBySlugOnly(c, key) == DictGet(c.by_slug, key)

\* PolymarketMarketCache.get
CacheGet(c, key) ==
    IF key \in DOMAIN c.by_slug THEN Some(c.by_slug[key])
    ELSE LET slug == DictGet(c.by_condition_id, key)
         IN IF slug # None /\ slug[1] # <<>> THEN DictGet(c.by_slug, slug[1]) ELSE None

\* for i, token_id in enumerate(token_ids): map[token_id] = (slug, i)
RECURSIVE SetTokens(_, _, _, _)
SetTokens(d, items, n, slug) ==
    IF n > Len(items) THEN d
    ELSE SetTokens(Put(d, items[n], <<slug, n - 1>>), items, n + 1, slug)

\* PolymarketMarketCache.set
CacheSet(c, slug, market) ==
    [by_slug |-> Put(c.by_slug, slug, market),
     by_condition_id |->
        IF market.conditionId # <<>>
        THEN Put(c.by_condition_id, market.conditionId, slug)
        ELSE c.by_condition_id,
     token_to_slug_outcome |->
        SetTokens(c.token_to_slug_outcome, PyIter(market.clobTokenIds), 1, slug)]

\* PolymarketMarketCache.get_slug_for_token
GetSlugForToken(c, token_id) == DictGet(c.token_to_slug_outcome, token_id)

\* mutant: only the primary map is cleared
CacheClearSlugsOnly(c) == [c EXCEPT !.by_slug = EmptyDict]

\* mutant: only the two index maps are cleared
CacheClearIndexesOnly(c) ==
    [c EXCEPT !.by_condition_id = EmptyDict, !.token_to_slug_outcome = EmptyDict]

\* PolymarketMarketCache.clear
CacheClear(c) == EmptyCache

\* slug_key = market.get("slug", slug)
SlugKey(market, symbol) == IF market.slug # <<>> THEN market.slug ELSE symbol

\* the catalog's answer to GET /markets?slug=...|condition_id=...&limit=1
Responses(by, key) ==
    LET matches == {m \in Catalog : IF by = "slug" THEN m.slug = key
                                    ELSE m.conditionId = key}
    IN IF matches = {} THEN {<<>>} ELSE {<<m>> : m \in matches}

IdleCall == [pc |-> "idle", symbol |-> <<>>, by |-> "-", result |-> None]

\* resolve(symbol) up to its first suspension: a cache hit returns, a miss
\* sends the catalog request
Resolve(c, symbol) ==
    /\ call[c].pc # "fetching"
    /\ LET cached == CacheGet(cache, symbol) IN
       IF cached # None
       THEN /\ call' = [call EXCEPT ![c] =
                  [pc |-> "hit", symbol |-> symbol, by |-> "-", result |-> cached]]
            /\ UNCHANGED requests
       ELSE /\ requests < MaxRequests
            /\ call' = [call EXCEPT ![c] =
                  [pc |-> "fetching", symbol |-> symbol,
                   by |-> IF StartsWith0x(symbol) THEN "condition_id" ELSE "slug",
                   result |-> None]]
            /\ requests' = requests + 1
    /\ stale' = stale \ {c}
    /\ UNCHANGED <<cache, served, dropped, pollVars, svcVars, pushVars>>

\* the catalog answers: no match raises ValueError, else the first match is
\* cached and returned
FetchReturn(c) ==
    /\ call[c].pc = "fetching"
    /\ \E markets \in Responses(call[c].by, call[c].symbol) :
          IF markets = <<>>
          THEN /\ call' = [call EXCEPT ![c].pc = "not_found"]
               /\ UNCHANGED <<cache, served>>
          ELSE LET market == markets[1] IN
               /\ cache' = CacheSet(cache, SlugKey(market, call[c].symbol), market)
               /\ call' = [call EXCEPT ![c].pc = "fetched", ![c].result = Some(market)]
               /\ served' = served \cup {[symbol |-> call[c].symbol, market |-> market]}
    /\ UNCHANGED <<requests, dropped, stale, pollVars, svcVars, pushVars>>

\* the request fails: raise_for_status() or the transport raises
FetchError(c) ==
    /\ call[c].pc = "fetching"
    /\ call' = [call EXCEPT ![c].pc = "error"]
    /\ UNCHANGED <<cache, requests, served, dropped, stale, pollVars, svcVars, pushVars>>

\* refresh(): cache.clear(), which has no suspension point
Clear ==
    /\ cache' = CacheClear(cache)
    /\ dropped' = served
    /\ served' = {}
    /\ stale' = stale \cup {c \in Calls : call[c].pc = "fetching"}
    /\ UNCHANGED <<call, requests, pollVars, svcVars, pushVars>>

----------------------------------------------------------------------------
(* Part III: the markets service (overview, top movers) over the three     *)
(* providers' get_overview_quotes.                                           *)

Providers == {"stocks", "crypto", "predictions"}

\* self._all_providers, in the order gather() is given them
AllProviders == <<"stocks", "crypto", "predictions">>

\* items of one /coins/markets answer
MaxItems == 4

\* the limit of a top-movers request (the route accepts 1..50)
MaxLimit == 3

\* YFinanceProvider.OVERVIEW_SYMBOLS (the first two of the five)
OverviewSymbols == <<"AAPL", "MSFT">>

CoinIds == <<"bitcoin", "ethereum", "solana", "cardano", "ripple", "dogecoin">>

\* price_change_percentage_24h of a /coins/markets item: a number or null
Changes == {Some(5), Some(0 - 12), Some(3), None}

Abs(v) == IF v < 0 THEN 0 - v ELSE v

\* a MarketQuote, as far as the service looks at it; metadata is None or a dict
OverviewQuote(source, symbol, metadata) ==
    [source |-> source, symbol |-> symbol, metadata |-> metadata]

\* the outcome of a call: a returned list, or the exception it raised
Returned(quotes) == [exc |-> "none", status |-> 0, quotes |-> quotes]

Raised(exc, status) == [exc |-> exc, status |-> status, quotes |-> <<>>]

Pending == [exc |-> "pending", status |-> 0, quotes |-> <<>>]

RECURSIVE Concat(_)
Concat(lists) ==
    IF lists = <<>> THEN <<>> ELSE Head(lists) \o Concat(Tail(lists))

\* what the upstreams can answer to one overview call
StockUpstreams == [1 .. Len(OverviewSymbols) -> {"price", "no_price", "error"}]

CryptoUpstreams ==
    {[status |-> 200, items |-> items] : items \in SeqsUpTo(Changes, MaxItems)}
        \cup {[status |-> s, items |-> <<>>] : s \in {429, 500}}

PredictionUpstreams ==
    {[status |-> 200, items |-> items] :
        items \in {<<>>, <<"will-it-rain">>}}
        \cup {[status |-> s, items |-> <<>>] : s \in {503}}

Upstreams(p) ==
    CASE p = "stocks" -> StockUpstreams
      [] p = "crypto" -> CryptoUpstreams
      [] p = "predictions" -> PredictionUpstreams

\* YFinanceProvider.get_overview_quotes: gather(get_quote..., return_exceptions
\* = True), keeping the MarketQuotes
YfGetOverviewQuotes(up) ==
    LET results == [i \in 1 .. Len(OverviewSymbols) |->
                      IF up[i] = "price"
                      THEN Returned(<<OverviewQuote("stocks", OverviewSymbols[i],
                                        Some([provider |-> "yfinance"]))>>)
                      ELSE Raised("ValueError", 0)]
    IN Returned(Concat([i \in 1 .. Len(results) |-> results[i].quotes]))

\* CoinGeckoProvider.get_overview_quotes: one request, raise_for_status()
CgGetOverviewQuotes(up) ==
    IF up.status >= 400 THEN Raised("HTTPStatusError", up.status)
    ELSE Returned([i \in 1 .. Len(up.items) |->
            OverviewQuote("crypto", CoinIds[i],
                Some([market_cap |-> None, change_24h |-> up.items[i]]))])

\* PolymarketProvider.get_overview_quotes: list_markets(), raise_for_status()
PmGetOverviewQuotes(up) ==
    IF up.status >= 400 THEN Raised("HTTPStatusError", up.status)
    ELSE Returned([i \in 1 .. Len(up.items) |->
            OverviewQuote("predictions", up.items[i],
                Some([slug |-> up.items[i]]))])

GetOverviewQuotes(p, up) ==
    CASE p = "stocks" -> YfGetOverviewQuotes(up)
      [] p = "crypto" -> CgGetOverviewQuotes(up)
      [] p = "predictions" -> PmGetOverviewQuotes(up)

\* mutant: the signed change is the key
ChangeKeySigned(q) ==
    LET v == IF q.metadata # None /\ DOMAIN q.metadata[1] # {}
             THEN DictGet(q.metadata[1], "change_24h")
             ELSE None
    IN IF v # None /\ v[1] # None THEN v[1][1] ELSE 0

\* _change_key: abs(change_24h), 0.0 without metadata or without a change
ChangeKey(q) ==
    LET v == IF q.metadata # None /\ DOMAIN q.metadata[1] # {}
             THEN DictGet(q.metadata[1], "change_24h")
             ELSE None
    IN IF v # None /\ v[1] # None THEN Abs(v[1][1]) ELSE 0

\* list.sort(key=_change_key, reverse=True): stable, equal keys keep their order
RECURSIVE InsertByKey(_, _)
InsertByKey(sorted, q) ==
    IF sorted = <<>> THEN <<q>>
    ELSE IF ChangeKey(Head(sorted)) >= ChangeKey(q)
         THEN <<Head(sorted)>> \o InsertByKey(Tail(sorted), q)
         ELSE <<q>> \o sorted

RECURSIVE SortByChange(_)
SortByChange(quotes) ==
    IF quotes = <<>> THEN <<>>
    ELSE InsertByKey(SortByChange(SubSeq(quotes, 1, Len(quotes) - 1)),
                     quotes[Len(quotes)])

\* quotes[:limit], limit >= 0
Take(quotes, limit) ==
    SubSeq(quotes, 1, IF limit < Len(quotes) THEN limit ELSE Len(quotes))

\* mutant: a raised result is not left out
GatherOverviewKeepsAll(results) ==
    Concat([i \in 1 .. Len(results) |->
              IF results[i].exc = "none" THEN results[i].quotes
              ELSE <<OverviewQuote("error", results[i].exc, None)>>])

\* _gather_overview after the gather: the lists of the results that are no
\* exception, in the providers' order
GatherOverview(results) ==
    Concat([i \in 1 .. Len(results) |->
              IF results[i].exc = "none" THEN results[i].quotes ELSE <<>>])

\* self._by_source.get(source)
BySource(source) == source

IdleRequest ==
    [pc |-> "idle", op |-> "-", source |-> "-", limit |-> 0,
     impl |-> "-", kind |-> "-", http |-> 0,
     called |-> {},
     upstream |-> [p \in Providers |-> None],
     results |-> [p \in Providers |-> Pending],
     response |-> Pending]

\* get_overview(): the three get_overview_quotes() are started by gather()
CallOverview ==
    /\ svc.pc # "gathering"
    /\ svc' = [IdleRequest EXCEPT !.pc = "gathering", !.op = "overview",
                                  !.called = Providers]
    /\ UNCHANGED <<pollVars, cacheVars, pushVars>>

\* get_top_movers(source, limit): the fan-out, or the one provider of the source
CallTopMovers(source, limit) ==
    /\ svc.pc # "gathering"
    /\ svc' = [IdleRequest EXCEPT !.pc = "gathering", !.op = "top_movers",
                                  !.source = source, !.limit = limit,
                                  !.called = IF source = "None" THEN Providers
                                             ELSE {BySource(source)}]
    /\ UNCHANGED <<pollVars, cacheVars, pushVars>>

\* what the upstream does with a single-item lookup
UpstreamKinds ==
    {"ok", "unknown", "no_price", "server_error", "timeout", "malformed"}

\* the two PolymarketProvider classes of the repository
PredictionImpls == {"predictions.polymarket", "polymarket"}

Impls(p) == IF p = "predictions" THEN PredictionImpls ELSE {"-"}

\* a MarketQuote with its value
Quote(source, symbol, value) ==
    [source |-> source, symbol |-> symbol, value |-> value, metadata |-> None]

\* max(prices)
RECURSIVE MaxOf(_)
MaxOf(prices) ==
    IF Len(prices) = 1 THEN prices[1]
    ELSE IF prices[1] >= MaxOf(Tail(prices)) THEN prices[1] ELSE MaxOf(Tail(prices))

\* outcomePrices of the market payload, in percent
OutcomePrices(kind) == IF kind = "ok" THEN <<65, 35>> ELSE <<>>

\* PolymarketMarketDTO.value: max(prices) if prices else 0.0
DtoValue(prices) == IF prices # <<>> THEN MaxOf(prices) ELSE 0

\* YFinanceProvider._fetch_quote_sync: no price raises ValueError, and every
\* other exception is re-raised as ValueError
YfGetQuote(kind) ==
    IF kind = "ok" THEN Returned(<<Quote("stocks", "AAPL", 190)>>)
    ELSE Raised("ValueError", 0)

\* CoinGeckoProvider.get_quote
CgGetQuote(kind) ==
    CASE kind = "ok" -> Returned(<<Quote("crypto", "bitcoin", 100)>>)
      [] kind \in {"unknown", "no_price"} -> Raised("ValueError", 0)
      [] kind = "server_error" -> Raised("HTTPStatusError", 500)
      [] kind = "timeout" -> Raised("httpx.TimeoutException", 0)
      [] kind = "malformed" -> Raised("ValueError", 0)

\* PolymarketProvider.get_quote: _fetch_market, then the DTO's quote
PmGetQuote(kind) ==
    CASE kind \in {"ok", "no_price"} ->
            Returned(<<Quote("predictions", "will-it-rain", DtoValue(OutcomePrices(kind)))>>)
      [] kind = "unknown" -> Raised("ValueError", 0)
      [] kind = "server_error" -> Raised("HTTPStatusError", 500)
      [] kind = "timeout" -> Raised("httpx.TimeoutException", 0)
      [] kind = "malformed" -> Raised("ValueError", 0)

GetQuote(p, kind) ==
    CASE p = "stocks" -> YfGetQuote(kind)
      [] p = "crypto" -> CgGetQuote(kind)
      [] p = "predictions" -> PmGetQuote(kind)

\* YFinanceProvider._fetch_history_sync: an empty frame is an empty list,
\* every exception is re-raised as ValueError
YfGetHistory(kind) ==
    CASE kind \in {"ok", "no_price"} -> Returned(<<Quote("stocks", "AAPL", 190)>>)
      [] kind = "unknown" -> Returned(<<>>)
      [] OTHER -> Raised("ValueError", 0)

\* CoinGeckoProvider.get_history
CgGetHistory(kind) ==
    CASE kind \in {"ok", "no_price"} -> Returned(<<Quote("crypto", "bitcoin", 100)>>)
      [] kind = "unknown" -> Raised("HTTPStatusError", 404)
      [] kind = "server_error" -> Raised("HTTPStatusError", 500)
      [] kind = "timeout" -> Raised("httpx.TimeoutException", 0)
      [] kind = "malformed" -> Raised("ValueError", 0)

\* get_history of the prediction-market provider: the class under
\* predictions/ inherits the default, which raises NotImplementedError; the
\* class under polymarket/ returns the current quote as a one-element list
PmGetHistory(impl, kind) ==
    IF impl = "predictions.polymarket" THEN Raised("NotImplementedError", 0)
    ELSE PmGetQuote(kind)

GetHistory(p, impl, kind) ==
    CASE p = "stocks" -> YfGetHistory(kind)
      [] p = "crypto" -> CgGetHistory(kind)
      [] p = "predictions" -> PmGetHistory(impl, kind)

\* ProviderErrorMapper.to_http: the status code
ToHttp(outcome) ==
    CASE outcome.exc = "ValueError" -> 404
      [] outcome.exc = "HTTPStatusError" ->
            IF outcome.status = 404 THEN 404
            ELSE IF outcome.status >= 500 THEN 502 ELSE outcome.status
      [] outcome.exc \in {"TimeoutError", "asyncio.TimeoutError"} -> 504
      [] outcome.exc \in {"KeyError", "TypeError"} -> 404
      [] OTHER -> 500

\* _PROVIDER_EXCEPTIONS: what MarketService catches and maps
ProviderExceptions ==
    {"ValueError", "KeyError", "TypeError", "TimeoutError", "OSError",
     "asyncio.TimeoutError", "HTTPStatusError"}

\* the status the caller sees: 200, the mapped status, or 500 for an
\* exception the service lets through
HttpStatus(outcome) ==
    IF outcome.exc = "none" THEN 200
    ELSE IF outcome.exc \in ProviderExceptions THEN ToHttp(outcome) ELSE 500

\* MarketService.get_quote / get_history: the provider call is awaited
CallSingle(op, p, impl) ==
    /\ svc.pc # "gathering"
    /\ svc' = [IdleRequest EXCEPT !.pc = "gathering", !.op = op, !.source = p,
                                  !.impl = impl, !.called = {p}]
    /\ UNCHANGED <<pollVars, cacheVars, pushVars>>

\* the provider call is over; its exception, if any, is mapped to HTTP
SingleDone ==
    /\ svc.pc = "gathering"
    /\ svc.op \in {"get_quote", "get_history"}
    /\ \E kind \in UpstreamKinds :
          LET outcome == IF svc.op = "get_quote" THEN GetQuote(svc.source, kind)
                         ELSE GetHistory(svc.source, svc.impl, kind)
          IN svc' = [svc EXCEPT !.pc = "done", !.kind = kind,
                                !.response = outcome,
                                !.http = HttpStatus(outcome)]
    /\ UNCHANGED <<pollVars, cacheVars, pushVars>>

\* one provider's get_overview_quotes() finishes with what its upstream gave
ProviderDone(p) ==
    /\ svc.pc = "gathering"
    /\ svc.op \in {"overview", "top_movers"}
    /\ p \in svc.called
    /\ svc.results[p] = Pending
    /\ \E up \in Upstreams(p) :
          svc' = [svc EXCEPT !.upstream[p] = Some(up),
                             !.results[p] = GetOverviewQuotes(p, up)]
    /\ UNCHANGED <<pollVars, cacheVars, pushVars>>

\* the awaited call is over: the exception of a directly awaited provider
\* propagates, a gathered list is flattened, top movers are sorted and cut
Respond ==
    /\ svc.pc = "gathering"
    /\ svc.op \in {"overview", "top_movers"}
    /\ \A p \in svc.called : svc.results[p] # Pending
    /\ LET results == [i \in 1 .. Len(AllProviders) |-> svc.results[AllProviders[i]]]
           direct == svc.results[BySource(svc.source)]
       IN svc' = [svc EXCEPT
             !.pc = "done",
             !.response =
                IF svc.op = "overview" THEN Returned(GatherOverview(results))
                ELSE IF svc.source = "None"
                     THEN Returned(Take(SortByChange(GatherOverview(results)), svc.limit))
                     ELSE IF direct.exc # "none" THEN direct
                          ELSE Returned(Take(SortByChange(direct.quotes), svc.limit))]
    /\ UNCHANGED <<pollVars, cacheVars, pushVars>>

----------------------------------------------------------------------------
(* Part IV: PolymarketProvider.stream, the push transport. The provider's   *)
(* _streaming flag is the variable streaming.                               *)

\* messages the sessions receive in a run
MaxMessages == 2

\* float(text) succeeds; a price comes as text
IsFloat(text) == text \in {"0", "0.0", "0.40", "0.65"}

\* float(text), in hundredths
Float(text) ==
    IF text = "0.40" THEN 40 ELSE IF text = "0.65" THEN 65 ELSE 0

\* an inbound frame: text that is no JSON, JSON that is no object, or an
\* object with the fields the code reads
Frame0(json, event_type, asset_id, price, changes) ==
    [json |-> json, event_type |-> event_type, asset_id |-> asset_id,
     price |-> price, price_changes |-> changes]

Change(asset_id, best_bid) == [asset_id |-> asset_id, best_bid |-> best_bid]

Messages ==
    {Frame0("object", "last_trade_price", Some("71"), Some("0.65"), <<>>),
     Frame0("object", "last_trade_price", None, Some("0.65"), <<>>),
     Frame0("object", "last_trade_price", Some("71"), Some("abc"), <<>>),
     Frame0("object", "price_change", None, None,
            <<Change(Some("72"), Some("0.65")), Change(Some("71"), Some("0")),
              Change(Some("71"), Some("0.40"))>>),
     Frame0("object", "price_change", None, None,
            <<Change(Some("71"), None), Change(None, Some("0.40")),
              Change(Some("72"), Some("0.0"))>>),
     Frame0("object", "book", Some("71"), None, <<>>),
     Frame0("array", "-", None, None, <<>>),
     Frame0("invalid", "-", None, None, <<>>)}

\* the outcome of handling one frame: the quotes to yield, or the exception
Quotes0(quotes) == [exc |-> "none", quotes |-> quotes]

Raises(exc) == [exc |-> exc, quotes |-> <<>>]

\* _quote_from_price: the symbol is token_to_symbol.get(asset_id, asset_id);
\* asset_id is history, the quote does not carry it
QuoteFromPrice(asset_id, value, token_to_symbol) ==
    [symbol |-> IF asset_id \in DOMAIN token_to_symbol
                THEN token_to_symbol[asset_id] ELSE asset_id,
     value |-> value, asset_id |-> asset_id]

\* the price_change comprehension: a change without asset id, without
\* best_bid or with the best_bid "0" is passed over, float(best_bid) may raise
RECURSIVE ChangeQuotes(_, _, _)
ChangeQuotes(changes, i, token_to_symbol) ==
    IF i > Len(changes) THEN Quotes0(<<>>)
    ELSE LET c == changes[i]
             rest == ChangeQuotes(changes, i + 1, token_to_symbol)
         IN IF c.asset_id = None \/ c.best_bid = None THEN rest
            ELSE IF c.best_bid[1] = "0" THEN rest
            ELSE IF ~IsFloat(c.best_bid[1]) THEN Raises("ValueError")
            ELSE IF rest.exc # "none" THEN rest
            ELSE Quotes0(<<QuoteFromPrice(c.asset_id[1], Float(c.best_bid[1]),
                                          token_to_symbol)>> \o rest.quotes)

\* _quotes_from_message
QuotesFromMessage(data, token_to_symbol) ==
    IF data.event_type = "last_trade_price"
    THEN IF data.asset_id = None THEN Quotes0(<<>>)
         ELSE IF data.price # None /\ ~IsFloat(data.price[1]) THEN Raises("ValueError")
         ELSE Quotes0(<<QuoteFromPrice(data.asset_id[1],
                           IF data.price = None THEN 0 ELSE Float(data.price[1]),
                           token_to_symbol)>>)
    ELSE IF data.event_type = "price_change"
         THEN ChangeQuotes(data.price_changes, 1, token_to_symbol)
         ELSE Quotes0(<<>>)

\* json.loads(raw), _parse_message_timestamp(data), _quotes_from_message(...)
HandleMessage(raw, token_to_symbol) ==
    IF raw.json = "invalid" THEN Raises("JSONDecodeError")
    ELSE IF raw.json # "object" THEN Raises("AttributeError")
    ELSE QuotesFromMessage(raw, token_to_symbol)

\* wait_for timeouts the sessions answer with a ping in a run
MaxPings == 1

\* close() calls in a run
MaxCloses == 2

\* what Gamma answers for a slug: the question, the parsed clobTokenIds and
\* the parsed outcomePrices (in hundredths), one per outcome
PushMarket(slug) ==
    IF slug = "will-it-rain"
    THEN [question |-> "Will it rain?", tokens |-> <<"71", "72">>, prices |-> <<65, 35>>]
    ELSE IF slug = "will-it-snow"
    THEN [question |-> "Will it snow?", tokens |-> <<"81">>, prices |-> <<30>>]
    ELSE [question |-> "No book", tokens |-> <<>>, prices |-> <<>>]

\* PolymarketMarketDTO.top_outcome_index: prices.index(max(prices)), 0 without
\* prices; the outcome whose probability get_quote and the overview publish
TopOutcomeIndex(prices) ==
    IF prices = <<>> THEN 0
    ELSE (CHOOSE i \in DOMAIN prices :
             /\ prices[i] = MaxOf(prices)
             /\ \A j \in DOMAIN prices : prices[j] = MaxOf(prices) => i <= j) - 1

\* the generator's frame before its first __anext__; connections and
\* subscriptions are history
PushFrame(symbols) ==
    [pc |-> "init", symbols |-> symbols, token_to_symbol |-> EmptyDict,
     asset_ids |-> <<>>, resolved |-> 0, connections |-> 0, subscriptions |-> <<>>,
     quotes |-> <<>>, idx |-> 0, received |-> 0, pings |-> 0,
     last |-> None, emitted |-> <<>>, error |-> "none"]

\* no close() in progress; closes counts the calls that returned, snapshot is
\* history: the frames at the call
IdleCloser == [pc |-> "idle", closes |-> 0, snapshot |-> <<>>]

\* lines 111-113: the finally clause, reached by a return from the loop, by
\* ConnectionClosed, by GeneratorExit at the yield and by any other exception
PushFinally(s, f, pc, error) ==
    /\ push' = [push EXCEPT ![s] = [f EXCEPT !.pc = pc, !.error = error]]
    /\ streaming' = FALSE
    /\ clearedBy' = s
    /\ ws' = None

\* line 97: while self._streaming
PushLoopHead(s, f) ==
    IF streaming
    THEN /\ push' = [push EXCEPT ![s] = [f EXCEPT !.pc = "receiving"]]
         /\ UNCHANGED <<streaming, clearedBy, ws>>
    ELSE PushFinally(s, f, "done", "none")

\* lines 85-88: first __anext__; with no symbols _build_symbol_mapping does
\* not suspend and the generator returns before the try
PushStart(s) ==
    LET f == push[s] IN
    /\ f.pc = "init"
    /\ streaming' = TRUE
    /\ push' = [push EXCEPT ![s] =
           [f EXCEPT !.pc = IF f.symbols = <<>> THEN "done" ELSE "mapping"]]
    /\ UNCHANGED <<providerKind, closedOver, clientClosed, clearedBy, session,
                   cacheVars, svcVars, ws, closer>>

\* mutant: the mapping stops after the first slug
MappingDoneAfterFirst(symbols, resolved) == resolved >= 1

\* line 127: for slug in symbols
MappingDone(symbols, resolved) == resolved = Len(symbols)

\* lines 127-133, 87-91: the next slug's market arrives; its token ids are
\* mapped to its question and appended to the asset ids. After the last slug
\* the generator returns if there are no asset ids, else it connects
PushMapped(s) ==
    LET f == push[s]
        m == PushMarket(f.symbols[f.resolved + 1])
        ids == f.asset_ids \o m.tokens
        g == [f EXCEPT !.resolved = f.resolved + 1, !.asset_ids = ids,
                       !.token_to_symbol =
                           [t \in DOMAIN f.token_to_symbol \cup Range(m.tokens) |->
                               IF t \in Range(m.tokens) THEN m.question
                               ELSE f.token_to_symbol[t]]]
    IN
    /\ f.pc = "mapping"
    /\ ~clientClosed
    /\ push' = [push EXCEPT ![s] =
           [g EXCEPT !.pc = IF ~MappingDone(f.symbols, g.resolved) THEN "mapping"
                            ELSE IF ids = <<>> THEN "done" ELSE "connecting"]]
    /\ UNCHANGED <<pollVars, cacheVars, svcVars, ws, closer>>

\* line 128: _fetch_market raises, before the try
PushMapFail(s) ==
    LET f == push[s] IN
    /\ f.pc = "mapping"
    /\ push' = [push EXCEPT ![s] = [f EXCEPT !.pc = "failed", !.error = "upstream"]]
    /\ UNCHANGED <<pollVars, cacheVars, svcVars, ws, closer>>

\* lines 91-95: the connection is open; it is recorded and the subscription
\* is sent
PushConnected(s) ==
    LET f == push[s] IN
    /\ f.pc = "connecting"
    /\ ws' = Some(s)
    /\ push' = [push EXCEPT ![s] =
           [f EXCEPT !.pc = "subscribing", !.connections = f.connections + 1,
                     !.subscriptions = Append(f.subscriptions, f.asset_ids)]]
    /\ UNCHANGED <<pollVars, cacheVars, svcVars, closer>>

\* lines 93-97: the subscription is sent, the loop is entered
PushSubscribed(s) ==
    LET f == push[s] IN
    /\ f.pc = "subscribing"
    /\ PushLoopHead(s, f)
    /\ UNCHANGED <<providerKind, closedOver, clientClosed, session, cacheVars, svcVars, closer>>

\* lines 99-105: one frame arrives and is handled up to the first yield, the
\* next recv, or the exception that leaves the loop
PushRecv(s, raw) ==
    LET f == push[s]
        out == HandleMessage(raw, f.token_to_symbol)
        g == [f EXCEPT !.received = f.received + 1, !.last = Some(raw)]
    IN
    /\ f.pc = "receiving"
    /\ push["A"].received + push["B"].received < MaxMessages
    /\ IF out.exc # "none"
       THEN PushFinally(s, g, "failed", out.exc)
       ELSE IF out.quotes = <<>>
            THEN PushLoopHead(s, g)
            ELSE /\ push' = [push EXCEPT ![s] =
                        [g EXCEPT !.pc = "yielded", !.quotes = out.quotes, !.idx = 1,
                                  !.emitted = Append(f.emitted, out.quotes[1])]]
                 /\ UNCHANGED <<streaming, clearedBy, ws>>
    /\ UNCHANGED <<providerKind, closedOver, clientClosed, session, cacheVars, svcVars, closer>>

\* the consumer asks for the next quote: the for loop goes on, or the while
\* condition is read again
PushResume(s) ==
    LET f == push[s] IN
    /\ f.pc = "yielded"
    /\ IF f.idx < Len(f.quotes)
       THEN /\ push' = [push EXCEPT ![s] =
                   [f EXCEPT !.idx = f.idx + 1,
                             !.emitted = Append(f.emitted, f.quotes[f.idx + 1])]]
            /\ UNCHANGED <<streaming, clearedBy, ws>>
       ELSE PushLoopHead(s, [f EXCEPT !.quotes = <<>>, !.idx = 0])
    /\ UNCHANGED <<providerKind, closedOver, clientClosed, session, cacheVars, svcVars, closer>>

\* the consumer closes the generator at the yield
PushAbandon(s) ==
    LET f == push[s] IN
    /\ f.pc = "yielded"
    /\ PushFinally(s, f, "closed", "none")
    /\ UNCHANGED <<providerKind, closedOver, clientClosed, session, cacheVars, svcVars, closer>>

\* lines 106-107: no frame within 30 s, a ping, then the while condition
PushTimeout(s) ==
    LET f == push[s] IN
    /\ f.pc = "receiving"
    /\ push["A"].pings + push["B"].pings < MaxPings
    /\ PushLoopHead(s, [f EXCEPT !.pings = f.pings + 1])
    /\ UNCHANGED <<providerKind, closedOver, clientClosed, session, cacheVars, svcVars, closer>>

\* lines 109-110: the connection is closed (by the server, or by close())
\* during recv
PushConnectionClosed(s) ==
    LET f == push[s] IN
    /\ f.pc = "receiving"
    /\ PushFinally(s, f, "done", "none")
    /\ UNCHANGED <<providerKind, closedOver, clientClosed, session, cacheVars, svcVars, closer>>

\* mutant: close() leaves the recorded connection in place
RecordedAfterCloseKept(w) == w

\* line 255: self._ws = None
RecordedAfterClose(w) == None

\* lines 252-253, 256: close() clears the flag, then awaits the close of the
\* recorded connection if there is one, else the close of the Gamma client
PushCloseCall ==
    /\ closer.pc = "idle"
    /\ closer.closes < MaxCloses
    /\ streaming' = FALSE
    /\ clearedBy' = "close"
    /\ closer' = [closer EXCEPT !.pc = IF ws # None THEN "closing_ws" ELSE "closing_client",
                                !.snapshot = push]
    /\ UNCHANGED <<providerKind, closedOver, clientClosed, session, cacheVars, svcVars,
                   push, ws>>

\* lines 254-256: the connection is closed; the record is dropped and the
\* close of the Gamma client is awaited
PushCloseWsDone ==
    /\ closer.pc = "closing_ws"
    /\ ws' = RecordedAfterClose(ws)
    /\ closer' = [closer EXCEPT !.pc = "closing_client"]
    /\ UNCHANGED <<pollVars, cacheVars, svcVars, push>>

\* line 256: the Gamma client is closed, close() returns
PushCloseReturn ==
    /\ closer.pc = "closing_client"
    /\ clientClosed' = TRUE
    /\ closer' = [closer EXCEPT !.pc = "idle", !.closes = closer.closes + 1]
    /\ UNCHANGED <<providerKind, streaming, clearedBy, closedOver, session,
                   cacheVars, svcVars, push, ws>>

----------------------------------------------------------------------------
(* Specifications *)

CacheIdle ==
    /\ cache = EmptyCache
    /\ call = [c \in Calls |-> IdleCall]
    /\ requests = 0
    /\ served = {}
    /\ dropped = {}
    /\ stale = {}

ServiceIdle == svc = IdleRequest

PushIdle ==
    /\ push = [s \in Sessions |-> [PushFrame(<<>>) EXCEPT !.pc = "off"]]
    /\ ws = None
    /\ closer = IdleCloser

Frame(kind, dedup, symbols) ==
    [pc |-> "init", kind |-> kind, dedup_by_value |-> dedup, symbols |-> symbols,
     stop_event |-> IF kind = "event" THEN "unset" ELSE "None",
     last_values |-> EmptyDict, quotes |-> <<>>, idx |-> 0, rounds |-> 0,
     emitted |-> <<>>,
     fetched |-> [sym \in Symbols |-> [rounds |-> {}, values |-> {}]]]

\* stream_by_polling with a stop event, CoinGeckoProvider.stream (no stop
\* event, dedup on), YFinanceProvider.stream
Frames(provider) ==
    IF provider = "coingecko"
    THEN {Frame("event", d, syms) : d \in BOOLEAN, syms \in {<<>>, <<"BTC">>}}
         \cup {Frame("legacy", TRUE, syms) : syms \in {<<>>, <<"BTC">>}}
    ELSE {Frame("yf", TRUE, syms) : syms \in {<<>>, <<"BTC">>}}

Init ==
    /\ providerKind \in {"coingecko", "yfinance"}
    /\ streaming = FALSE
    /\ clientClosed = FALSE
    /\ clearedBy = "init"
    /\ closedOver = {}
    /\ session \in [Sessions -> Frames(providerKind)]
    /\ CacheIdle
    /\ ServiceIdle
    /\ PushIdle

Next ==
    \/ \E s \in Sessions :
        \/ Start(s, ConcRounds)
        \/ FetchDone(s)
        \/ FetchFail(s)
        \/ Resume(s)
        \/ Abandon(s)
        \/ SleepDone(s, ConcRounds)
        \/ SetStop(s)
    \/ Close

Spec == Init /\ [][Next]_vars

\* one session of stream_by_polling(stop_event=...) over two symbols, dedup
\* on or off
InitDedup ==
    /\ providerKind = "coingecko"
    /\ streaming = FALSE
    /\ clientClosed = FALSE
    /\ clearedBy = "init"
    /\ closedOver = {}
    /\ \E d \in BOOLEAN :
          session = [s \in Sessions |->
                        IF s = "A" THEN Frame("event", d, <<"BTC", "ETH">>)
                        ELSE [Frame("event", d, <<>>) EXCEPT !.pc = "off"]]
    /\ CacheIdle
    /\ ServiceIdle
    /\ PushIdle

NextDedup ==
    \E s \in Sessions :
        \/ Start(s, MaxRounds)
        \/ FetchDone(s)
        \/ FetchFail(s)
        \/ Resume(s)
        \/ Abandon(s)
        \/ SleepDone(s, MaxRounds)
        \/ SetStop(s)

SpecDedup == InitDedup /\ [][NextDedup]_vars

\* the fairness of the event loop: a ready coroutine is resumed, a pending
\* fetch or sleep completes, a consumer either asks for the next quote or
\* drops the generator
Fairness ==
    \A s \in Sessions :
        WF_vars(Start(s, ConcRounds) \/ FetchDone(s) \/ FetchFail(s)
                \/ Resume(s) \/ Abandon(s) \/ SleepDone(s, ConcRounds))

\* a stream_by_polling session with a stop event, beside a second session of
\* the same provider with or without one
InitLive ==
    /\ providerKind = "coingecko"
    /\ streaming = FALSE
    /\ clientClosed = FALSE
    /\ clearedBy = "init"
    /\ closedOver = {}
    /\ session \in [Sessions -> {f \in Frames(providerKind) : f.dedup_by_value}]
    /\ session["A"].kind = "event"
    /\ CacheIdle
    /\ ServiceIdle
    /\ PushIdle

\* the resolver and its cache, no streaming session
InitCache ==
    /\ providerKind = "polymarket"
    /\ streaming = FALSE
    /\ clientClosed = FALSE
    /\ clearedBy = "init"
    /\ closedOver = {}
    /\ session = [s \in Sessions |-> [Frame("event", TRUE, <<>>) EXCEPT !.pc = "off"]]
    /\ CacheIdle
    /\ ServiceIdle
    /\ PushIdle

NextCache ==
    \/ \E c \in Calls :
        \/ \E symbol \in ResolveSymbols : Resolve(c, symbol)
        \/ FetchReturn(c)
        \/ FetchError(c)
    \/ Clear

SpecCache == InitCache /\ [][NextCache]_vars


\* the markets service alone
InitService ==
    /\ providerKind = "coingecko"
    /\ streaming = FALSE
    /\ clientClosed = FALSE
    /\ clearedBy = "init"
    /\ closedOver = {}
    /\ session = [s \in Sessions |-> [Frame("event", TRUE, <<>>) EXCEPT !.pc = "off"]]
    /\ CacheIdle
    /\ ServiceIdle
    /\ PushIdle

NextService ==
    \/ CallOverview
    \/ \E source \in Providers \cup {"None"} : \E limit \in 1 .. MaxLimit :
          CallTopMovers(source, limit)
    \/ \E p \in Providers : ProviderDone(p)
    \/ Respond
    \/ \E op \in {"get_quote", "get_history"} : \E p \in Providers :
          \E impl \in Impls(p) : CallSingle(op, p, impl)
    \/ SingleDone

SpecService == InitService /\ [][NextService]_vars

\* two push sessions of one PolymarketProvider
InitPush ==
    /\ providerKind = "polymarket"
    /\ streaming = FALSE
    /\ clientClosed = FALSE
    /\ clearedBy = "init"
    /\ closedOver = {}
    /\ session = [s \in Sessions |-> [Frame("event", TRUE, <<>>) EXCEPT !.pc = "off"]]
    /\ CacheIdle
    /\ ServiceIdle
    /\ \E a \in {<<>>, <<"no-book">>, <<"will-it-rain">>, <<"will-it-rain", "will-it-snow">>} :
       \E b \in {<<>>, <<"will-it-rain">>} :
          push = [s \in Sessions |-> PushFrame(IF s = "A" THEN a ELSE b)]
    /\ ws = None
    /\ closer = IdleCloser

NextPush ==
    \/ \E s \in Sessions :
        \/ PushStart(s)
        \/ PushMapped(s)
        \/ PushMapFail(s)
        \/ PushConnected(s)
        \/ PushSubscribed(s)
        \/ \E raw \in Messages : PushRecv(s, raw)
        \/ PushResume(s)
        \/ PushAbandon(s)
        \/ PushTimeout(s)
        \/ PushConnectionClosed(s)

SpecPush == InitPush /\ [][NextPush]_vars

\* one push session and close() calls
InitClose ==
    /\ providerKind = "polymarket"
    /\ streaming = FALSE
    /\ clientClosed = FALSE
    /\ clearedBy = "init"
    /\ closedOver = {}
    /\ session = [s \in Sessions |-> [Frame("event", TRUE, <<>>) EXCEPT !.pc = "off"]]
    /\ CacheIdle
    /\ ServiceIdle
    /\ \E a \in {<<>>, <<"will-it-rain">>} :
          push = [s \in Sessions |->
                     IF s = "A" THEN PushFrame(a)
                     ELSE [PushFrame(<<>>) EXCEPT !.pc = "off"]]
    /\ ws = None
    /\ closer = IdleCloser

NextClose ==
    \/ NextPush
    \/ PushCloseCall
    \/ PushCloseWsDone
    \/ PushCloseReturn

SpecClose == InitClose /\ [][NextClose]_vars

SpecLive == InitLive /\ [][Next]_vars /\ Fairness

----------------------------------------------------------------------------
(* Properties of the polling sessions *)

Terminated(f) == f.pc \in {"done", "failed", "closed"}

\* the generator of session s took a step (its frame changed, apart from the
\* stop event, which its consumer owns)
Stepped(s) ==
    [session[s] EXCEPT !.stop_event = "-"] # [session'[s] EXCEPT !.stop_event = "-"]

\* C1: two stream_by_polling sessions with their own stop events do not
\* interfere: a session with a stop event leaves its loop only when its own
\* event is set, starts the next fetch round whenever its event is unset
\* (whatever the other session, close() or the flag did), and never writes
\* the provider-wide streaming flag.
C1_StopEventsIndependent ==
    [][\A b \in Sessions :
          (session[b].kind = "event" /\ Stepped(b)) =>
             /\ streaming' = streaming
             /\ clearedBy' = clearedBy
             /\ (session'[b].pc = "done") =>
                    (session[b].stop_event = "set" \/ session[b].symbols = <<>>)
             /\ (session[b].pc \in {"init", "sleeping"}
                 /\ session[b].stop_event = "unset"
                 /\ session[b].symbols # <<>>) => session'[b].pc = "fetching"]_vars

\* C1 witness: A was stopped by its own event after polling; B, whose event
\* is unset, is in a later fetch round although the flag is False
C1_Witness ==
    /\ session["A"].kind = "event" /\ session["B"].kind = "event"
    /\ session["A"].pc = "done" /\ session["A"].stop_event = "set"
    /\ session["A"].rounds >= 1
    /\ session["B"].pc = "fetching" /\ session["B"].stop_event = "unset"
    /\ session["B"].rounds = ConcRounds /\ session["B"].emitted # <<>>
    /\ ~streaming

\* C2: for the providers' own stream() loops (CoinGeckoProvider.stream,
\* YFinanceProvider.stream), a session's loop is never ended by the
\* termination of another session: when a running session leaves its loop,
\* the flag it read was not cleared by another session's finally clause.
C2_ProviderStreamsIndependent ==
    [][\A b \in Sessions :
          (session[b].kind \in {"legacy", "yf"}
           /\ session[b].pc = "sleeping" /\ session'[b].pc = "done")
             => clearedBy \notin (Sessions \ {b})]_vars

\* the criterion of C3, on the quotes already emitted: q is to be emitted
\* iff nothing was emitted for its symbol or the last emission differs
LastEmitted(emitted, sym) ==
    LET ks == {k \in DOMAIN emitted : emitted[k].symbol = sym}
    IN emitted[CHOOSE k \in ks : \A j \in ks : j <= k]

ShouldEmit(f, q) ==
    f.dedup_by_value =>
        \/ ~\E k \in DOMAIN f.emitted : f.emitted[k].symbol = q.symbol
        \/ LastEmitted(f.emitted, q.symbol).value # q.value

\* C3: with dedup a fetched quote is emitted iff the session has emitted
\* nothing for its symbol yet or its value differs from the last value
\* emitted for that symbol; without dedup every fetched quote is emitted.
\* In one step the generator passes over the quotes from..to-1 of the batch
\* without emitting and emits the quote at to (if any).
C3_EmitIffChanged ==
    [][\A s \in Sessions :
          (Stepped(s) /\ session[s].pc \in {"fetching", "yielded"}
           /\ session'[s].pc \in {"yielded", "sleeping"}) =>
             LET f == session[s]
                 g == session'[s]
                 from == IF f.pc = "fetching" THEN 1 ELSE f.idx + 1
                 to == IF g.pc = "yielded" THEN g.idx ELSE Len(g.quotes) + 1
             IN /\ \A k \in from .. (to - 1) : ~ShouldEmit(f, g.quotes[k])
                /\ IF g.pc = "yielded"
                   THEN /\ ShouldEmit(f, g.quotes[to])
                        /\ Len(g.emitted) = Len(f.emitted) + 1
                        /\ g.emitted[Len(g.emitted)].symbol = g.quotes[to].symbol
                        /\ g.emitted[Len(g.emitted)].value = g.quotes[to].value
                   ELSE g.emitted = f.emitted]_vars

\* C3 witness: with dedup, an unchanged quote was passed over and a changed
\* one emitted
C3_Witness ==
    \E s \in Sessions :
        /\ session[s].dedup_by_value
        /\ session[s].pc = "yielded" /\ session[s].idx = 2
        /\ session[s].rounds = 2
        /\ Len(session[s].emitted) = 3
        /\ session[s].quotes[1].symbol = "BTC"

EmittedFor(f, sym) == {k \in DOMAIN f.emitted : f.emitted[k].symbol = sym}

\* the value of sym's last round-1 emission
Round1Value(f, sym) ==
    LET ks == {k \in EmittedFor(f, sym) : f.emitted[k].round = 1}
    IN f.emitted[CHOOSE k \in ks : \A j \in ks : j <= k].value

\* round 1 has been processed to its end
Round1Over(f) == f.rounds >= 2 \/ (f.rounds = 1 /\ f.pc \in {"sleeping", "done"})

\* a symbol fetched in round 1 is emitted in round 1
EmittedInRound1(f) ==
    \A sym \in Symbols :
        (1 \in f.fetched[sym].rounds /\ Round1Over(f)) =>
            \E k \in EmittedFor(f, sym) : f.emitted[k].round = 1

\* one value in each of at least three consecutive rounds: one emission
ThreeIdenticalRoundsOneEmission(f) ==
    \A sym \in Symbols :
        (/\ f.pc = "sleeping" /\ f.rounds >= 3
         /\ f.fetched[sym].rounds = 1 .. f.rounds
         /\ Cardinality(f.fetched[sym].values) = 1) =>
            Cardinality(EmittedFor(f, sym)) = 1

\* C4 as stated: with dedup a symbol's quote is always emitted in round 1,
\* in a later round only if its value differs from the symbol's round-1
\* value, and identical values across three rounds give one emission.
C4_AsStated ==
    \A s \in Sessions :
        LET f == session[s] IN
        f.dedup_by_value =>
            /\ EmittedInRound1(f)
            /\ \A k \in DOMAIN f.emitted :
                  (/\ f.emitted[k].round >= 2
                   /\ \E j \in EmittedFor(f, f.emitted[k].symbol) : f.emitted[j].round = 1)
                     => f.emitted[k].value # Round1Value(f, f.emitted[k].symbol)
            /\ ThreeIdenticalRoundsOneEmission(f)

\* C4 (amended): with dedup a symbol's quote is always emitted in round 1,
\* in a later round only if its value differs from the value last emitted
\* for that symbol (which need not be its round-1 value), and identical
\* values across three rounds give one emission.
C4_Amended ==
    \A s \in Sessions :
        LET f == session[s] IN
        f.dedup_by_value =>
            /\ EmittedInRound1(f)
            /\ \A k \in DOMAIN f.emitted : \A j \in DOMAIN f.emitted :
                  (/\ j < k
                   /\ f.emitted[j].symbol = f.emitted[k].symbol
                   /\ ~\E m \in (j + 1) .. (k - 1) :
                          f.emitted[m].symbol = f.emitted[k].symbol)
                     => f.emitted[j].value # f.emitted[k].value
            /\ ThreeIdenticalRoundsOneEmission(f)

\* C4 witness: BTC was fetched with one value in three rounds and emitted
\* once, while ETH changed and was emitted again
C4_Witness ==
    \E s \in Sessions :
        LET f == session[s] IN
        /\ f.dedup_by_value /\ f.pc = "sleeping" /\ f.rounds = 3
        /\ f.fetched["BTC"].rounds = {1, 2, 3}
        /\ Cardinality(f.fetched["BTC"].values) = 1
        /\ Cardinality(EmittedFor(f, "BTC")) = 1
        /\ Cardinality(EmittedFor(f, "ETH")) >= 2

\* C5: a session with a stop event starts a new fetch round at every loop
\* head it reaches with the event unset, starts no fetch round once the
\* event is set, and then terminates.
C5_RunsUntilStopped ==
    /\ [][\A s \in Sessions :
             (session[s].kind = "event" /\ session[s].symbols # <<>>) =>
                /\ (Stepped(s) /\ session[s].pc \in {"init", "sleeping"}
                    /\ session[s].stop_event = "unset")
                     => (session'[s].pc = "fetching"
                         /\ session'[s].rounds = session[s].rounds + 1)
                /\ session[s].stop_event = "set"
                     => session'[s].rounds = session[s].rounds]_vars
    /\ \A s \in Sessions :
          (session[s].kind = "event" /\ session[s].stop_event = "set")
              ~> Terminated(session[s])

\* C5 witness: a session that polled, had its event set while sleeping and
\* returned
C5_Witness ==
    \E s \in Sessions :
        /\ session[s].kind = "event" /\ session[s].stop_event = "set"
        /\ session[s].pc = "done" /\ session[s].rounds = 1
        /\ session[s].emitted # <<>>

\* C6: stream_by_polling with an empty symbol list returns at once: no
\* fetch round, no quote, and the streaming flag is left as it was, with or
\* without a stop event.
C6_EmptySymbolsReturns ==
    [][\A s \in Sessions :
          (session[s].kind \in {"event", "legacy"} /\ session[s].symbols = <<>>) =>
             /\ session'[s].pc \in {"init", "done"}
             /\ session'[s].rounds = 0
             /\ session'[s].emitted = <<>>
             /\ Stepped(s) => (streaming' = streaming /\ clearedBy' = clearedBy)]_vars

\* C6 witness: a call without stop event and without symbols has returned
\* while the flag, raised by a running session, is still up
C6_Witness ==
    /\ session["A"].kind = "legacy" /\ session["A"].symbols = <<>>
    /\ session["A"].pc = "done"
    /\ session["B"].kind = "legacy" /\ session["B"].pc = "fetching"
    /\ streaming

\* C19: a fetch failure in a poll round does not end a polling session: from
\* its fetch the session goes on to emit the quotes it got, if any, and to the
\* sleep before the next round.
C19_FetchFailureSkipsRound ==
    [][\A s \in Sessions :
          session[s].pc = "fetching" =>
             session'[s].pc \in {"fetching", "yielded", "sleeping"}]_vars

\* C26: a polling session emits in fetch order: a quote of round k precedes
\* every quote of a later round, and the quotes of one round come in the order
\* of the fetched batch, each emitted at most once.
C26_EmittedInFetchOrder ==
    \A s \in Sessions :
        LET e == session[s].emitted IN
        \A k \in DOMAIN e : \A l \in DOMAIN e :
            k < l => \/ e[k].round < e[l].round
                     \/ (e[k].round = e[l].round /\ e[k].pos < e[l].pos)

\* two quotes of one batch were emitted, then one of a later round
C26_Witness ==
    LET e == session["A"].emitted IN
    /\ Len(e) >= 3
    /\ e[1].round = 1 /\ e[2].round = 1 /\ e[1].pos = 1 /\ e[2].pos = 2
    /\ e[3].round > 1

\* C27: once close() has returned on a provider, no polling loop that was
\* running against that provider starts a further fetch round, with or
\* without a stop signal, whatever sessions start afterwards.
C27_NoRoundAfterClose ==
    [][\A s \in Sessions :
          s \in closedOver => session'[s].rounds = session[s].rounds]_vars

----------------------------------------------------------------------------
(* Properties of the market cache and the resolver *)

\* call slot c takes a resolve(symbol) step
ResolveStep(c, symbol) ==
    /\ call'[c] # call[c]
    /\ call'[c].pc \in {"hit", "fetching"}
    /\ call'[c].symbol = symbol

ClearStep == call' = call /\ <<served, dropped>>' # <<served, dropped>>

\* symbol names a market of the history h: the symbol it was fetched by,
\* its slug or its condition id
Known(h, symbol) ==
    \E p \in h : \/ p.symbol = symbol
                 \/ p.market.slug # <<>> /\ p.market.slug = symbol
                 \/ p.market.conditionId # <<>> /\ p.market.conditionId = symbol

KnownMarket(h, symbol) ==
    CHOOSE m \in Catalog :
        \E p \in h : /\ p.market = m
                     /\ symbol \in {p.symbol, p.market.slug, p.market.conditionId}

\* C7: once a market has been fetched and cached (and the cache not cleared
\* since), resolving it again by the same symbol, by its slug or by its
\* condition id returns the cached market and issues no upstream request;
\* the only request is the one of the resolve that missed.
C7_CachedResolveDoesNotFetch ==
    [][\A c \in Calls : \A symbol \in ResolveSymbols :
          ResolveStep(c, symbol) =>
             IF Known(served, symbol)
             THEN /\ call'[c].pc = "hit"
                  /\ call'[c].result = Some(KnownMarket(served, symbol))
                  /\ requests' = requests
             ELSE /\ call'[c].pc = "fetching"
                  /\ requests' = requests + 1]_vars

C7_Witness ==
    /\ requests = 1
    /\ served = {[symbol |-> SlugBtc, market |-> MarketBtc]}
    /\ call["c1"].pc = "hit" /\ call["c1"].symbol = SlugBtc
    /\ call["c2"].pc = "hit" /\ call["c2"].symbol = CondBtc

\* C8: a clear leaves all three maps empty, and the next resolve of a slug or
\* condition id that was cached before the clear sends a fresh upstream
\* request.
C8_ClearForcesRefetch ==
    [][/\ ClearStep => cache' = EmptyCache
       /\ \A c \in Calls : \A symbol \in ResolveSymbols :
             (ResolveStep(c, symbol) /\ Known(dropped, symbol)
                                     /\ ~Known(served, symbol))
                => /\ call'[c].pc = "fetching"
                   /\ requests' = requests + 1]_vars

C8_Witness ==
    /\ cache = EmptyCache
    /\ served = {}
    /\ \E c \in Calls : /\ call[c].pc = "fetching"
                        /\ Known(dropped, call[c].symbol)

\* C9: no state shows a partially cleared cache: every cached market has its
\* condition-id and token index entries, and every index entry points at a
\* cached market; in particular the three maps are empty together.
C9_ClearIsAtomic ==
    /\ \A k \in DOMAIN cache.by_slug :
          LET m == cache.by_slug[k] IN
          /\ m.conditionId # <<>> => m.conditionId \in DOMAIN cache.by_condition_id
          /\ \A t \in Range(PyIter(m.clobTokenIds)) :
                t \in DOMAIN cache.token_to_slug_outcome
    /\ \A k \in DOMAIN cache.by_condition_id :
          cache.by_condition_id[k] \in DOMAIN cache.by_slug
    /\ \A t \in DOMAIN cache.token_to_slug_outcome :
          cache.token_to_slug_outcome[t][1] \in DOMAIN cache.by_slug
    /\ (cache.by_slug = EmptyDict) => cache = EmptyCache

\* the cache was cleared while a resolve is waiting for the catalog
C9_Witness ==
    /\ cache = EmptyCache
    /\ dropped # {}
    /\ \E c \in Calls : call[c].pc = "fetching"
    /\ \E c \in Calls : call[c].pc = "fetched"

\* C10: when a resolve has fetched a market and cached it, every token id the
\* market lists maps, through get_slug_for_token, to the slug the market was
\* cached under together with the token's index in the list, and the market
\* is retrievable by that slug.
C10_TokensMapToCachedSlug ==
    [][\A c \in Calls :
          (call[c].pc = "fetching" /\ call'[c].pc = "fetched") =>
             LET market == call'[c].result[1]
                 slug == SlugKey(market, call[c].symbol)
                 token_ids == ParseClobTokenIds(market.clobTokenIds)
             IN /\ CacheGet(cache', slug) = Some(market)
                /\ \A i \in 1 .. Len(token_ids) :
                      GetSlugForToken(cache', token_ids[i]) = Some(<<slug, i - 1>>)]_vars

\* symbol starts with the two characters 0x
HexPrefixed(symbol) == Len(symbol) >= 2 /\ SubSeq(symbol, 1, 2) = <<"0", "x">>

\* the catalog's markets a request (by, key) matches
CatalogMatches(by, key) ==
    {m \in Catalog : \/ by = "slug" /\ m.slug = key
                     \/ by = "condition_id" /\ m.conditionId = key}

\* C11: a resolve that misses the cache sends exactly one catalog request, by
\* condition id iff the symbol starts with 0x and by slug otherwise; the
\* answer's first match is returned; with no match the resolve fails with
\* not-found and with a failed request it fails with the upstream error, and
\* in both cases the three maps stay as they were.
C11_MissFetchesOnce ==
    [][\A c \in Calls :
          /\ \A symbol \in ResolveSymbols :
                (ResolveStep(c, symbol) /\ call'[c].pc = "fetching") =>
                   /\ requests' = requests + 1
                   /\ call'[c].by = (IF HexPrefixed(symbol) THEN "condition_id" ELSE "slug")
                   /\ cache' = cache
          /\ (call[c].pc = "fetching" /\ call'[c].pc # "fetching") =>
                /\ requests' = requests
                /\ call'[c].pc \in {"fetched", "not_found", "error"}
                /\ call'[c].pc = "fetched" =>
                      /\ call'[c].result # None
                      /\ call'[c].result[1] \in CatalogMatches(call[c].by, call[c].symbol)
                /\ call'[c].pc = "not_found" =>
                      /\ CatalogMatches(call[c].by, call[c].symbol) = {}
                      /\ call'[c].result = None
                      /\ cache' = cache
                /\ call'[c].pc = "error" =>
                      /\ call'[c].result = None
                      /\ cache' = cache]_vars

\* a market was fetched by condition id, and an unknown symbol and a failed
\* request left the filled cache as it was
C11_Witness ==
    /\ cache # EmptyCache
    /\ call["c1"].pc = "fetched" /\ call["c1"].by = "condition_id"
    /\ call["c2"].pc \in {"not_found", "error"}
    /\ call["c2"].by = "slug"

\* C28: between two refreshes at most one upstream request per market is in
\* flight: a resolve that starts while another resolve of the same symbol is
\* waiting for the catalog does not send a second request.
C28_OneFetchPerMarket ==
    \A c1 \in Calls : \A c2 \in Calls :
        (c1 # c2 /\ call[c1].pc = "fetching" /\ call[c2].pc = "fetching")
           => call[c1].symbol # call[c2].symbol

\* C29: a clear is not undone by a resolve that was waiting for the catalog
\* when it ran: the completion of a request sent before the clear leaves the
\* cache as the clear left it.
C29_ClearNotUndone ==
    [][\A c \in stale :
          (call[c].pc = "fetching" /\ call'[c].pc # "fetching") => cache' = cache]_vars

\* C30: the two indexes agree with the slug map: a condition id in the index
\* maps to a cached slug whose payload carries that condition id, and a token
\* id in the index maps to (slug, i) where slug is cached and the i-th token
\* id of its payload is that token id.
C30_IndexesAgreeWithSlugMap ==
    /\ \A k \in DOMAIN cache.by_condition_id :
          LET slug == cache.by_condition_id[k] IN
          /\ slug \in DOMAIN cache.by_slug
          /\ cache.by_slug[slug].conditionId = k
    /\ \A t \in DOMAIN cache.token_to_slug_outcome :
          LET slug == cache.token_to_slug_outcome[t][1]
              i == cache.token_to_slug_outcome[t][2]
          IN /\ slug \in DOMAIN cache.by_slug
             /\ LET ids == ParseClobTokenIds(cache.by_slug[slug].clobTokenIds)
                IN i + 1 <= Len(ids) /\ ids[i + 1] = t

----------------------------------------------------------------------------
(* Properties of the markets service *)

\* what provider p contributed: its list, or nothing if it raised
Contribution(p) ==
    IF svc.results[p].exc = "none" THEN svc.results[p].quotes ELSE <<>>

\* C12: the overview calls every provider and returns, in the providers'
\* order, the concatenation of the lists of exactly the providers that did
\* not raise; it never fails, and with every provider failing it returns the
\* empty list.
C12_OverviewOmitsFailedProviders ==
    (svc.pc = "done" /\ svc.op = "overview") =>
       /\ \A p \in Providers : svc.results[p] # Pending
       /\ svc.response.exc = "none"
       /\ svc.response.quotes =
             Contribution("stocks") \o Contribution("crypto") \o Contribution("predictions")
       /\ (\A p \in Providers : Contribution(p) = <<>>) => svc.response.quotes = <<>>

\* the crypto provider raised, the other two delivered
C12_Witness ==
    /\ svc.pc = "done" /\ svc.op = "overview"
    /\ svc.results["crypto"].exc = "HTTPStatusError"
    /\ Len(svc.results["stocks"].quotes) = 2
    /\ Len(svc.results["predictions"].quotes) = 1
    /\ Len(svc.response.quotes) = 3

\* the 24h change of a quote: None without metadata, without the key or if null
ChangeOf(q) ==
    IF q.metadata = None THEN None
    ELSE IF "change_24h" \notin DOMAIN q.metadata[1] THEN None
         ELSE q.metadata[1].change_24h

AbsChange(q) ==
    IF ChangeOf(q) = None THEN 0
    ELSE IF ChangeOf(q)[1] < 0 THEN 0 - ChangeOf(q)[1] ELSE ChangeOf(q)[1]

Count(q, quotes) == Cardinality({i \in 1 .. Len(quotes) : quotes[i] = q})

\* the list get_top_movers sorts: the fan-out's, or the one provider's
Collected ==
    IF svc.source = "None"
    THEN Contribution("stocks") \o Contribution("crypto") \o Contribution("predictions")
    ELSE Contribution(svc.source)

\* C13: top movers are the first `limit` quotes of the collected list in
\* descending order of |change_24h|, a missing or null change counting as 0
\* and so coming after every non-zero change; never more than `limit`
\* quotes, each of them from the collected list.
C13_TopMoversSortedAndCut ==
    (svc.pc = "done" /\ svc.op = "top_movers" /\ svc.response.exc = "none") =>
       LET movers == svc.response.quotes IN
       /\ Len(movers) <= svc.limit
       /\ Len(movers) = IF svc.limit < Len(Collected) THEN svc.limit ELSE Len(Collected)
       /\ \A i, j \in 1 .. Len(movers) :
             i < j => /\ AbsChange(movers[i]) >= AbsChange(movers[j])
                      /\ ChangeOf(movers[i]) = None => AbsChange(movers[j]) = 0
       /\ \A q \in Range(movers) : Count(q, movers) <= Count(q, Collected)
       /\ \A q \in Range(Collected) :
             Count(q, movers) < Count(q, Collected) =>
                \A i \in 1 .. Len(movers) : AbsChange(movers[i]) >= AbsChange(q)

\* changes +5, -12, null, +3 come out as -12, +5, +3 under limit 3
C13_Witness ==
    /\ svc.pc = "done" /\ svc.op = "top_movers" /\ svc.limit = 3
    /\ svc.source = "crypto"
    /\ svc.upstream["crypto"] =
          Some([status |-> 200, items |-> <<Some(5), Some(0 - 12), None, Some(3)>>])
    /\ [i \in 1 .. Len(svc.response.quotes) |-> ChangeOf(svc.response.quotes[i])]
          = <<Some(0 - 12), Some(5), Some(3)>>

\* C14: no provider's get_overview_quotes raises when its upstream fails: the
\* failed items are left out, and if all fail the list is empty.
C14_ProviderOverviewNeverRaises ==
    \A p \in Providers :
       svc.results[p] # Pending =>
          /\ svc.results[p].exc = "none"
          /\ (p = "stocks" =>
                Len(svc.results[p].quotes)
                   = Cardinality({i \in 1 .. Len(OverviewSymbols) :
                                     svc.upstream[p][1][i] = "price"}))
          /\ (p # "stocks" /\ svc.upstream[p][1].status >= 400 =>
                svc.results[p].quotes = <<>>)

\* C15: top movers with a source filter never fail because that source's
\* provider raised: a (possibly empty) list is returned.
C15_FilteredTopMoversNeverFail ==
    (svc.pc = "done" /\ svc.op = "top_movers" /\ svc.source # "None") =>
       svc.response.exc = "none"

SingleItemDone(op) == svc.pc = "done" /\ svc.op = op

\* C16: get_quote never returns a quote when the upstream has no price for
\* the symbol (unknown symbol, row without a price, market without outcome
\* prices): it fails with not-found.
C16_NoFabricatedQuote ==
    SingleItemDone("get_quote") =>
       /\ svc.response.exc = "none" => svc.kind = "ok"
       /\ svc.kind \in {"unknown", "no_price"} =>
             /\ svc.response.exc = "ValueError"
             /\ svc.http = 404

\* C17: get_history of the prediction-market provider fails with
\* NotImplementedError whatever the upstream would answer; it never returns
\* a list.
C17_PredictionHistoryUnsupported ==
    (SingleItemDone("get_history") /\ svc.source = "predictions") =>
       /\ svc.response.exc = "NotImplementedError"
       /\ svc.response.quotes = <<>>

\* C18: a single-item operation that failed on an upstream server error, a
\* timeout or a malformed payload is answered with 502 or 504, and 404 is
\* answered only when the symbol does not exist upstream.
C18_UpstreamFailureIsNotNotFound ==
    (SingleItemDone("get_quote") \/ SingleItemDone("get_history")) =>
       /\ (svc.kind \in {"server_error", "timeout", "malformed"}
             /\ svc.response.exc # "NotImplementedError")
             => svc.http \in {502, 504}
       /\ svc.http = 404 => svc.kind \in {"unknown", "no_price"}


----------------------------------------------------------------------------
(* Properties of the push stream *)

\* not valid JSON, not an object, a non-numeric price, an unknown event shape
Malformed(raw) ==
    \/ raw.json # "object"
    \/ raw.event_type \notin {"last_trade_price", "price_change"}
    \/ (raw.event_type = "last_trade_price" /\ raw.price # None
        /\ ~IsFloat(raw.price[1]))

\* session s takes a frame off the socket in this step
Receives(s) == push[s].pc = "receiving" /\ push'[s].received = push[s].received + 1

\* C20: a malformed inbound frame is dropped: the step that receives it
\* yields no quote and leaves the session waiting for the next frame (or, the
\* flag having been turned off meanwhile, ended without an error), never
\* terminated by an exception.
C20_MalformedMessageDropped ==
    [][\A s \in Sessions :
          (Receives(s) /\ Malformed(push'[s].last[1]))
          => /\ push'[s].emitted = push[s].emitted
             /\ push'[s].error = "none"
             /\ push'[s].pc \in {"receiving", "done"}]_vars


\* the quotes a batch of best-bid entries calls for: one per entry with a
\* token id and a present, non-zero price, in entry order
RECURSIVE LiveEntries(_, _, _)
LiveEntries(changes, i, token_to_symbol) ==
    IF i > Len(changes) THEN <<>>
    ELSE LET c == changes[i]
             rest == LiveEntries(changes, i + 1, token_to_symbol)
         IN IF c.asset_id # None /\ c.best_bid # None /\ Float(c.best_bid[1]) # 0
            THEN <<QuoteFromPrice(c.asset_id[1], Float(c.best_bid[1]), token_to_symbol)>>
                    \o rest
            ELSE rest

\* C24: for a price_change frame with numeric prices the session hands out
\* exactly one quote per entry that has a token id and a present, non-zero
\* best bid, in entry order, and none for an entry whose price is zero or
\* absent.
C24_BatchSkipsZeroAndAbsent ==
    [][\A s \in Sessions :
          (/\ Receives(s)
           /\ push'[s].last[1].json = "object"
           /\ push'[s].last[1].event_type = "price_change")
          => LET want == LiveEntries(push'[s].last[1].price_changes, 1,
                                     push[s].token_to_symbol)
             IN /\ push'[s].quotes = want
                /\ push'[s].emitted =
                      push[s].emitted \o (IF want = <<>> THEN <<>> ELSE <<want[1]>>)]_vars


\* the token ids of the markets of symbols[i..], in request order
RECURSIVE TokensOf(_, _)
TokensOf(symbols, i) ==
    IF i > Len(symbols) THEN <<>>
    ELSE PushMarket(symbols[i]).tokens \o TokensOf(symbols, i + 1)

\* C23: a push session has resolved every requested symbol before it opens
\* its connection; it opens one connection and sends one subscription, naming
\* the token ids of all requested markets; when a symbol failed to resolve, or
\* no token id resulted, no connection has been opened.
C23_ResolveAllThenSubscribeOnce ==
    \A s \in Sessions :
        LET f == push[s] IN
        /\ f.connections <= 1
        /\ Len(f.subscriptions) = f.connections
        /\ f.connections = 1 =>
              /\ f.resolved = Len(f.symbols)
              /\ f.subscriptions[1] = TokensOf(f.symbols, 1)
              /\ f.subscriptions[1] # <<>>
        /\ f.pc \in {"subscribing", "receiving", "yielded"} => f.connections = 1
        /\ (f.error = "upstream" \/ f.resolved < Len(f.symbols)
            \/ TokensOf(f.symbols, 1) = <<>>) => f.connections = 0

\* a session over two markets is receiving on its one connection, subscribed
\* to the three token ids
C23_Witness ==
    /\ push["A"].pc = "receiving"
    /\ Len(push["A"].symbols) = 2
    /\ push["A"].connections = 1
    /\ push["A"].subscriptions = <<<<"71", "72", "81">>>>
    /\ push["B"].error = "upstream"


\* the read of session s times out in this step
TimesOut(s) == push'[s].pings = push[s].pings + 1

\* the connection of session s is closed under its read in this step
ClosedUnderRead(s) ==
    /\ push[s].pc = "receiving" /\ push'[s].pc = "done"
    /\ push'[s].pings = push[s].pings /\ push'[s].received = push[s].received

\* C25: a read timeout is answered with a ping and the session goes on
\* receiving on its connection (unless close() has turned the flag off); a
\* close of the connection by the server ends the session without an error,
\* and leaves the provider with no recorded connection and the flag cleared.
C25_TimeoutPingsCloseEndsCleanly ==
    [][\A s \in Sessions :
          /\ TimesOut(s) =>
                /\ push'[s].error = "none"
                /\ push'[s].connections = push[s].connections
                /\ (streaming \/ clearedBy # "close") => push'[s].pc = "receiving"
          /\ ClosedUnderRead(s) =>
                /\ push'[s].error = "none"
                /\ ws' = None
                /\ ~streaming']_vars


\* a close() call returns in this step
CloseReturns == closer.pc = "closing_client" /\ closer'.pc = "idle"

OutcomeOfToken(market, token) ==
    (CHOOSE i \in DOMAIN market.tokens : market.tokens[i] = token) - 1

\* C22: a quote of the stream published under a market's symbol carries the
\* probability of the outcome that get_quote and the overview publish for
\* that market (the DTO's top outcome): the two paths never publish different
\* outcomes under one symbol.
C22_OneOutcomePerSymbol ==
    \A s \in Sessions : \A k \in DOMAIN push[s].emitted :
        LET q == push[s].emitted[k] IN
        \A i \in DOMAIN push[s].symbols :
            LET market == PushMarket(push[s].symbols[i]) IN
            (q.symbol = market.question /\ q.asset_id \in Range(market.tokens))
               => OutcomeOfToken(market, q.asset_id) = TopOutcomeIndex(market.prices)

============================================================================
